---- MODULE Spec2Model ----
\* Model of the try_iter crate (src/src/lib.rs): adapters and terminal
\* operations over an iterator of Result<T, E> items.
\*
\* Encoding of Rust values:
\*   Ok(v)   = <<"Ok", v>>      Err(e) = <<"Err", e>>
\*   None    = <<>>             Some(x) = <<x>>
\* The wrapped iterator is a vector iterator (as in the crate's tests): a
\* sequence `src` with a cursor `pos`; a pull past the end returns None and
\* leaves the cursor where it is.
EXTENDS Integers, Sequences, FiniteSets, TLC

\* ---------------------------------------------------------------- bounds
MaxLen == 3      \* longest wrapped sequence
MaxCalls == 5    \* most calls of next()/next_back() a caller makes

\* ---------------------------------------------------------------- types
OkVals == {1, 2}          \* values of TryIterator::Ok
ErrVals == {1, 2}         \* values of TryIterator::Err
MapVals == {1, 2, 3}      \* values of T, the result type of a closure
FErrVals == {11, 20}      \* errors of type E a map_and_then closure returns

Ok(v) == <<"Ok", v>>
Err(e) == <<"Err", e>>
None == <<>>
Some(x) == <<x>>

IsOk(x) == x[1] = "Ok"
IsErr(x) == x[1] = "Err"
IsNone(o) == Len(o) = 0
IsSome(o) == Len(o) = 1

Items == {Ok(v) : v \in OkVals} \cup {Err(e) : e \in ErrVals}

RECURSIVE SeqsUpTo(_)
SeqsUpTo(n) ==
  IF n = 0 THEN {<<>>}
  ELSE LET shorter == SeqsUpTo(n - 1)
       IN shorter \cup {Append(s, x) : s \in {t \in shorter : Len(t) = n - 1}, x \in Items}

\* E: From<Self::Err>, the conversion map_and_then applies to a wrapped error.
From(e) == e + 10

VARIABLES
  src,        \* the elements of the wrapped iterator
  pos,        \* its cursor: elements src[1..pos] have been pulled
  pulls,      \* calls of try_next() on the wrapped iterator so far
  kind,       \* which adapter or terminal operation consumed the iterator
  f,          \* the closure of TryMap / MapAndThen
  predicate,  \* the closure of TryFilter
  flag,       \* TakeOk::flag
  out,        \* what each call of the adapter's next() returned, in order
  calls,      \* the arguments the closure was invoked with, in order
  lastPulls,  \* try_next() calls made by the latest operation
  res,        \* the Result a terminal operation returned (<<>> before)
  buf,        \* the Vec inside IterBuffer
  front,      \* IterBuffer: elements taken from the front
  back,       \* IterBuffer: index of the last element not taken from the back
  bufOut,     \* what each next()/next_back() of IterBuffer returned
  collected   \* the Vec collect() built from the IterBuffer (<<>> before)

vars == <<src, pos, pulls, kind, f, predicate, flag, out, calls, lastPulls,
          res, buf, front, back, bufOut, collected>>

iterVars == <<src, pos, pulls, lastPulls>>
bufVars == <<buf, front, back, bufOut, collected>>

\* ------------------------------------------------ the wrapped iterator
\* impl TryIterator for I: try_next is the iterator's next.
try_next(s, p) ==
  IF p < Len(s) THEN [item |-> Some(s[p + 1]), pos |-> p + 1]
  ELSE [item |-> None, pos |-> p]

Init ==
  /\ src \in SeqsUpTo(MaxLen)
  /\ pos = 0
  /\ pulls = 0
  /\ kind = "none"
  /\ f = <<>>
  /\ predicate = <<>>
  /\ flag = FALSE
  /\ out = <<>>
  /\ calls = <<>>
  /\ lastPulls = 0
  /\ res = <<>>
  /\ buf = <<>>
  /\ front = 0
  /\ back = 0
  /\ bufOut = <<>>
  /\ collected = <<>>

\* ------------------------------------------------ adapter constructors
try_map(fn) ==
  /\ kind = "none"
  /\ kind' = "try_map"
  /\ f' = fn
  /\ UNCHANGED <<iterVars, predicate, flag, out, calls, res, bufVars>>

map_and_then(fn) ==
  /\ kind = "none"
  /\ kind' = "map_and_then"
  /\ f' = fn
  /\ UNCHANGED <<iterVars, predicate, flag, out, calls, res, bufVars>>

try_filter(p) ==
  /\ kind = "none"
  /\ kind' = "try_filter"
  /\ predicate' = p
  /\ UNCHANGED <<iterVars, f, flag, out, calls, res, bufVars>>

take_ok ==
  /\ kind = "none"
  /\ kind' = "take_ok"
  /\ flag' = FALSE
  /\ UNCHANGED <<iterVars, f, predicate, out, calls, res, bufVars>>

filter_ok ==
  /\ kind = "none"
  /\ kind' = "filter_ok"
  /\ UNCHANGED <<iterVars, f, predicate, flag, out, calls, res, bufVars>>

\* ------------------------------------------------ TryMap::next
\* self.iter.try_next().map(|r| r.map(&mut self.f))
\* Variant: the closure is applied to failures as well.
TryMapStep_MapErr(s, p, fn, cl) ==
  LET r == try_next(s, p) IN
  IF IsNone(r.item) THEN [item |-> None, pos |-> r.pos, n |-> 1, calls |-> cl]
  ELSE LET x == r.item[1] IN
       [item |-> Some(<<x[1], fn[x[2]]>>), pos |-> r.pos, n |-> 1,
        calls |-> Append(cl, x[2])]

TryMapStep(s, p, fn, cl) ==
  LET r == try_next(s, p) IN
  IF IsNone(r.item) THEN [item |-> None, pos |-> r.pos, n |-> 1, calls |-> cl]
  ELSE LET x == r.item[1] IN
       IF IsOk(x)
       THEN [item |-> Some(Ok(fn[x[2]])), pos |-> r.pos, n |-> 1,
             calls |-> Append(cl, x[2])]
       ELSE [item |-> Some(x), pos |-> r.pos, n |-> 1, calls |-> cl]

TryMap_next ==
  /\ kind = "try_map"
  /\ Len(out) < MaxCalls
  /\ LET r == TryMapStep(src, pos, f, calls) IN
       /\ out' = Append(out, r.item)
       /\ pos' = r.pos
       /\ pulls' = pulls + r.n
       /\ lastPulls' = r.n
       /\ calls' = r.calls
  /\ UNCHANGED <<src, kind, f, predicate, flag, res, bufVars>>

\* ------------------------------------------------ MapAndThen::next
\* self.iter.try_next().map(|r| r.map_err(From::from).and_then(&mut self.f))
\* Variant: a failure of the wrapped sequence is forwarded unconverted.
MapAndThenStep_NoConvert(s, p, fn, cl) ==
  LET r == try_next(s, p) IN
  IF IsNone(r.item) THEN [item |-> None, pos |-> r.pos, n |-> 1, calls |-> cl]
  ELSE LET x == r.item[1] IN
       IF IsOk(x)
       THEN [item |-> Some(fn[x[2]]), pos |-> r.pos, n |-> 1,
             calls |-> Append(cl, x[2])]
       ELSE [item |-> Some(x), pos |-> r.pos, n |-> 1, calls |-> cl]

MapAndThenStep(s, p, fn, cl) ==
  LET r == try_next(s, p) IN
  IF IsNone(r.item) THEN [item |-> None, pos |-> r.pos, n |-> 1, calls |-> cl]
  ELSE LET x == r.item[1]
           converted == IF IsErr(x) THEN Err(From(x[2])) ELSE x
       IN IF IsOk(converted)
          THEN [item |-> Some(fn[converted[2]]), pos |-> r.pos, n |-> 1,
                calls |-> Append(cl, converted[2])]
          ELSE [item |-> Some(converted), pos |-> r.pos, n |-> 1, calls |-> cl]

MapAndThen_next ==
  /\ kind = "map_and_then"
  /\ Len(out) < MaxCalls
  /\ LET r == MapAndThenStep(src, pos, f, calls) IN
       /\ out' = Append(out, r.item)
       /\ pos' = r.pos
       /\ pulls' = pulls + r.n
       /\ lastPulls' = r.n
       /\ calls' = r.calls
  /\ UNCHANGED <<src, kind, f, predicate, flag, res, bufVars>>

\* ------------------------------------------------ TryFilter::next
\* Variant: a failure is skipped like a rejected success.
RECURSIVE TryFilterLoop_SkipErr(_, _, _, _, _)
TryFilterLoop_SkipErr(s, p, pred, n, cl) ==
  LET r == try_next(s, p) IN
  IF IsNone(r.item) THEN [item |-> None, pos |-> r.pos, n |-> n + 1, calls |-> cl]
  ELSE LET x == r.item[1] IN
       IF IsOk(x)
       THEN IF pred[x[2]]
            THEN [item |-> Some(x), pos |-> r.pos, n |-> n + 1,
                  calls |-> Append(cl, x[2])]
            ELSE TryFilterLoop_SkipErr(s, r.pos, pred, n + 1, Append(cl, x[2]))
       ELSE TryFilterLoop_SkipErr(s, r.pos, pred, n + 1, cl)

RECURSIVE TryFilterLoop(_, _, _, _, _)
TryFilterLoop(s, p, pred, n, cl) ==
  LET r == try_next(s, p) IN
  IF IsNone(r.item) THEN [item |-> None, pos |-> r.pos, n |-> n + 1, calls |-> cl]
  ELSE LET x == r.item[1] IN
       IF IsOk(x)
       THEN IF pred[x[2]]
            THEN [item |-> Some(x), pos |-> r.pos, n |-> n + 1,
                  calls |-> Append(cl, x[2])]
            ELSE TryFilterLoop(s, r.pos, pred, n + 1, Append(cl, x[2]))
       ELSE [item |-> Some(x), pos |-> r.pos, n |-> n + 1, calls |-> cl]

TryFilter_next ==
  /\ kind = "try_filter"
  /\ Len(out) < MaxCalls
  /\ LET r == TryFilterLoop(src, pos, predicate, 0, calls) IN
       /\ out' = Append(out, r.item)
       /\ pos' = r.pos
       /\ pulls' = pulls + r.n
       /\ lastPulls' = r.n
       /\ calls' = r.calls
  /\ UNCHANGED <<src, kind, f, predicate, flag, res, bufVars>>

\* ------------------------------------------------ TakeOk::next
\* Variant: the flag is set but never consulted.
TakeOkStep_IgnoreFlag(s, p, fl) ==
  LET r == try_next(s, p) IN
  IF IsNone(r.item) THEN [item |-> None, pos |-> r.pos, n |-> 1, flag |-> fl]
  ELSE LET x == r.item[1] IN
       IF IsOk(x)
       THEN [item |-> Some(x[2]), pos |-> r.pos, n |-> 1, flag |-> fl]
       ELSE [item |-> None, pos |-> r.pos, n |-> 1, flag |-> TRUE]

\* Variant: a failure ends the pull but does not set the flag.
TakeOkStep_NoHalt(s, p, fl) ==
  IF fl THEN [item |-> None, pos |-> p, n |-> 0, flag |-> fl]
  ELSE LET r == try_next(s, p) IN
       IF IsNone(r.item) THEN [item |-> None, pos |-> r.pos, n |-> 1, flag |-> fl]
       ELSE LET x == r.item[1] IN
            IF IsOk(x)
            THEN [item |-> Some(x[2]), pos |-> r.pos, n |-> 1, flag |-> fl]
            ELSE [item |-> None, pos |-> r.pos, n |-> 1, flag |-> fl]

TakeOkStep(s, p, fl) ==
  IF fl THEN [item |-> None, pos |-> p, n |-> 0, flag |-> fl]
  ELSE LET r == try_next(s, p) IN
       IF IsNone(r.item) THEN [item |-> None, pos |-> r.pos, n |-> 1, flag |-> fl]
       ELSE LET x == r.item[1] IN
            IF IsOk(x)
            THEN [item |-> Some(x[2]), pos |-> r.pos, n |-> 1, flag |-> fl]
            ELSE [item |-> None, pos |-> r.pos, n |-> 1, flag |-> TRUE]

TakeOk_next ==
  /\ kind = "take_ok"
  /\ Len(out) < MaxCalls
  /\ LET r == TakeOkStep(src, pos, flag) IN
       /\ out' = Append(out, r.item)
       /\ pos' = r.pos
       /\ pulls' = pulls + r.n
       /\ lastPulls' = r.n
       /\ flag' = r.flag
  /\ UNCHANGED <<src, kind, f, predicate, calls, res, bufVars>>

\* ------------------------------------------------ FilterOk::next
\* Variant: a failure ends the pull with None instead of being skipped.
FilterOkLoop_Halt(s, p, n) ==
  LET r == try_next(s, p) IN
  IF IsNone(r.item) THEN [item |-> None, pos |-> r.pos, n |-> n + 1]
  ELSE LET x == r.item[1] IN
       IF IsOk(x) THEN [item |-> Some(x[2]), pos |-> r.pos, n |-> n + 1]
       ELSE [item |-> None, pos |-> r.pos, n |-> n + 1]

\* Variant: after finding a success the loop pulls the rest of the sequence.
RECURSIVE FilterOkLoop_Drain(_, _, _)
FilterOkLoop_Drain(s, p, n) ==
  LET r == try_next(s, p) IN
  IF IsNone(r.item) THEN [item |-> None, pos |-> r.pos, n |-> n + 1]
  ELSE LET x == r.item[1] IN
       IF IsOk(x)
       THEN [item |-> Some(x[2]), pos |-> Len(s), n |-> n + 1 + (Len(s) - r.pos)]
       ELSE FilterOkLoop_Drain(s, r.pos, n + 1)

RECURSIVE FilterOkLoop(_, _, _)
FilterOkLoop(s, p, n) ==
  LET r == try_next(s, p) IN
  IF IsNone(r.item) THEN [item |-> None, pos |-> r.pos, n |-> n + 1]
  ELSE LET x == r.item[1] IN
       IF IsOk(x) THEN [item |-> Some(x[2]), pos |-> r.pos, n |-> n + 1]
       ELSE FilterOkLoop(s, r.pos, n + 1)

FilterOk_next ==
  /\ kind = "filter_ok"
  /\ Len(out) < MaxCalls
  /\ LET r == FilterOkLoop(src, pos, 0) IN
       /\ out' = Append(out, r.item)
       /\ pos' = r.pos
       /\ pulls' = pulls + r.n
       /\ lastPulls' = r.n
  /\ UNCHANGED <<src, kind, f, predicate, flag, calls, res, bufVars>>

\* ------------------------------------------------ try_collect
\* FromIterator::from_iter(v.into_iter()) for B = Vec<T>: pushes every element
\* the iterator yields, front to back.
RECURSIVE from_iter(_, _)
from_iter(v, acc) ==
  IF v = <<>> THEN acc ELSE from_iter(Tail(v), Append(acc, Head(v)))

\* Variant: a failure is dropped and the loop goes on.
RECURSIVE TryCollectLoop_SkipErr(_, _, _, _)
TryCollectLoop_SkipErr(s, p, n, v) ==
  LET r == try_next(s, p) IN
  IF IsNone(r.item) THEN [res |-> Ok(from_iter(v, <<>>)), pos |-> r.pos, n |-> n + 1]
  ELSE LET x == r.item[1] IN
       IF IsErr(x) THEN TryCollectLoop_SkipErr(s, r.pos, n + 1, v)
       ELSE TryCollectLoop_SkipErr(s, r.pos, n + 1, Append(v, x[2]))

\* while let Some(x) = self.try_next() { v.push(x?); }  Ok(from_iter(v))
RECURSIVE TryCollectLoop(_, _, _, _)
TryCollectLoop(s, p, n, v) ==
  LET r == try_next(s, p) IN
  IF IsNone(r.item) THEN [res |-> Ok(from_iter(v, <<>>)), pos |-> r.pos, n |-> n + 1]
  ELSE LET x == r.item[1] IN
       IF IsErr(x) THEN [res |-> Err(x[2]), pos |-> r.pos, n |-> n + 1]
       ELSE TryCollectLoop(s, r.pos, n + 1, Append(v, x[2]))

try_collect ==
  /\ kind = "none"
  /\ kind' = "try_collect"
  /\ LET r == TryCollectLoop(src, pos, 0, <<>>) IN
       /\ res' = r.res
       /\ pos' = r.pos
       /\ pulls' = pulls + r.n
       /\ lastPulls' = r.n
  /\ UNCHANGED <<src, f, predicate, flag, out, calls, bufVars>>

\* ------------------------------------------------ try_buffer
\* while let Some(x) = self.try_next() { v.push(x?); }  Ok(IterBuffer(v.into_iter()))
\* On success res carries the Vec the IterBuffer was built from.
\* Variant: each value is inserted at the front of the Vec.
RECURSIVE TryBufferLoop_Prepend(_, _, _, _)
TryBufferLoop_Prepend(s, p, n, v) ==
  LET r == try_next(s, p) IN
  IF IsNone(r.item) THEN [res |-> Ok(v), pos |-> r.pos, n |-> n + 1]
  ELSE LET x == r.item[1] IN
       IF IsErr(x) THEN [res |-> Err(x[2]), pos |-> r.pos, n |-> n + 1]
       ELSE TryBufferLoop_Prepend(s, r.pos, n + 1, <<x[2]>> \o v)

RECURSIVE TryBufferLoop(_, _, _, _)
TryBufferLoop(s, p, n, v) ==
  LET r == try_next(s, p) IN
  IF IsNone(r.item) THEN [res |-> Ok(v), pos |-> r.pos, n |-> n + 1]
  ELSE LET x == r.item[1] IN
       IF IsErr(x) THEN [res |-> Err(x[2]), pos |-> r.pos, n |-> n + 1]
       ELSE TryBufferLoop(s, r.pos, n + 1, Append(v, x[2]))

try_buffer ==
  /\ kind = "none"
  /\ kind' = "try_buffer"
  /\ LET r == TryBufferLoop(src, pos, 0, <<>>) IN
       /\ res' = r.res
       /\ pos' = r.pos
       /\ pulls' = pulls + r.n
       /\ lastPulls' = r.n
       /\ buf' = IF IsOk(r.res) THEN r.res[2] ELSE <<>>
       /\ front' = 0
       /\ back' = IF IsOk(r.res) THEN Len(r.res[2]) ELSE 0
  /\ UNCHANGED <<src, f, predicate, flag, out, calls, bufOut, collected>>

\* ------------------------------------------------ IterBuffer
\* IterBuffer wraps std::vec::IntoIter: the elements b[fr+1..bk] remain.
IterBufferNext(b, fr, bk) ==
  IF fr = bk THEN [item |-> None, front |-> fr, back |-> bk]
  ELSE [item |-> Some(b[fr + 1]), front |-> fr + 1, back |-> bk]

\* Variant: the back element is returned without being removed.
IterBufferNextBack_NoDec(b, fr, bk) ==
  IF fr = bk THEN [item |-> None, front |-> fr, back |-> bk]
  ELSE [item |-> Some(b[bk]), front |-> fr, back |-> bk]

IterBufferNextBack(b, fr, bk) ==
  IF fr = bk THEN [item |-> None, front |-> fr, back |-> bk]
  ELSE [item |-> Some(b[bk]), front |-> fr, back |-> bk - 1]

\* ExactSizeIterator::len
IterBufferLen(fr, bk) == bk - fr

\* Iterator::size_hint
IterBufferSizeHint(fr, bk) == <<bk - fr, Some(bk - fr)>>

HasBuffer == kind = "try_buffer" /\ Len(res) = 2 /\ IsOk(res) /\ collected = <<>>

IterBuffer_next ==
  /\ HasBuffer
  /\ Len(bufOut) < MaxCalls
  /\ LET r == IterBufferNext(buf, front, back) IN
       /\ bufOut' = Append(bufOut, <<"next", r.item>>)
       /\ front' = r.front
       /\ back' = r.back
  /\ UNCHANGED <<iterVars, kind, f, predicate, flag, out, calls, res, buf, collected>>

IterBuffer_next_back ==
  /\ HasBuffer
  /\ Len(bufOut) < MaxCalls
  /\ LET r == IterBufferNextBack(buf, front, back) IN
       /\ bufOut' = Append(bufOut, <<"next_back", r.item>>)
       /\ front' = r.front
       /\ back' = r.back
  /\ UNCHANGED <<iterVars, kind, f, predicate, flag, out, calls, res, buf, collected>>

\* Iterator::collect::<Vec<_>>() on the IterBuffer: next() until None.
RECURSIVE CollectLoop(_, _, _, _)
CollectLoop(b, fr, bk, v) ==
  LET r == IterBufferNext(b, fr, bk) IN
  IF IsNone(r.item) THEN [vec |-> v, front |-> r.front, back |-> r.back]
  ELSE CollectLoop(b, r.front, r.back, Append(v, r.item[1]))

IterBuffer_collect ==
  /\ HasBuffer
  /\ LET r == CollectLoop(buf, front, back, <<>>) IN
       /\ collected' = Some(r.vec)
       /\ front' = r.front
       /\ back' = r.back
  /\ UNCHANGED <<iterVars, kind, f, predicate, flag, out, calls, res, buf, bufOut>>

Next ==
  \/ \E fn \in [OkVals -> MapVals] : try_map(fn)
  \/ \E fn \in [OkVals -> {Ok(v) : v \in MapVals} \cup {Err(e) : e \in FErrVals}] :
       map_and_then(fn)
  \/ \E p \in [OkVals -> BOOLEAN] : try_filter(p)
  \/ take_ok
  \/ filter_ok
  \/ TryMap_next
  \/ MapAndThen_next
  \/ TryFilter_next
  \/ TakeOk_next
  \/ FilterOk_next
  \/ try_collect
  \/ try_buffer
  \/ IterBuffer_next
  \/ IterBuffer_next_back
  \/ IterBuffer_collect

Spec == Init /\ [][Next]_vars

\* ================================================================ properties
\* Vocabulary of the properties, defined on the wrapped sequence itself.
Fails(s) == {i \in 1..Len(s) : IsErr(s[i])}
FirstFail(s) == CHOOSE i \in Fails(s) : \A j \in Fails(s) : i <= j
Values(s) == [i \in 1..Len(s) |-> s[i][2]]
OkValues(s) == Values(SelectSeq(s, IsOk))
OkPrefix(s) == IF Fails(s) = {} THEN Values(s) ELSE Values(SubSeq(s, 1, FirstFail(s) - 1))
Yielded(o) == [i \in 1..Len(SelectSeq(o, IsSome)) |-> SelectSeq(o, IsSome)[i][1]]
IsPrefix(a, b) == Len(a) <= Len(b) /\ a = SubSeq(b, 1, Len(a))
SawNone(o) == \E i \in 1..Len(o) : IsNone(o[i])
Pulled == SubSeq(src, 1, pos)

\* C1: try_collect returns Ok(container of all values, in order) iff the
\* sequence has no failure; otherwise it returns the first failure.
C1_TryCollectResult ==
  kind = "try_collect" =>
    /\ (IsOk(res) <=> Fails(src) = {})
    /\ (Fails(src) = {} => res = Ok(Values(src)))
    /\ (Fails(src) # {} => res = Err(src[FirstFail(src)][2]))

C1_Witness ==
  /\ kind = "try_collect"
  /\ Cardinality(Fails(src)) = 2
  /\ FirstFail(src) > 1
  /\ \E i \in Fails(src) : src[i] # src[FirstFail(src)]
  /\ IsErr(res)

\* C2: after pulling a failure, try_collect, try_buffer and take_ok never pull
\* the wrapped sequence again: the terminal operations make exactly
\* (position of the first failure + 1) pulls, and every pull of take_ok from
\* the one that met the failure onwards returns None.
C2_NoPullAfterFailure ==
  Fails(src) # {} =>
    /\ (kind \in {"try_collect", "try_buffer"} => pulls = FirstFail(src))
    /\ (kind = "take_ok" =>
          /\ pulls <= FirstFail(src)
          /\ \A i \in 1..Len(out) : i >= FirstFail(src) => IsNone(out[i]))

C2_Witness ==
  /\ kind = "take_ok"
  /\ Fails(src) # {}
  /\ FirstFail(src) < Len(src)
  /\ Len(out) >= FirstFail(src) + 2
  /\ pulls = FirstFail(src)

\* C3: take_ok yields exactly the successes before the first failure, in
\* order, and nothing more however long the caller keeps pulling.
C3_TakeOkPrefix ==
  kind = "take_ok" =>
    /\ IsPrefix(Yielded(out), OkPrefix(src))
    /\ (SawNone(out) => Yielded(out) = OkPrefix(src))

C3_Witness ==
  /\ kind = "take_ok"
  /\ Fails(src) # {}
  /\ FirstFail(src) > 1
  /\ \E i \in 1..Len(src) : i > FirstFail(src) /\ IsOk(src[i])
  /\ Len(out) > Len(src)
  /\ Yielded(out) # <<>>

\* C4: filter_ok yields exactly the successes of the sequence, in order,
\* including those after a failure.
C4_FilterOkAll ==
  kind = "filter_ok" =>
    /\ IsPrefix(Yielded(out), OkValues(src))
    /\ (SawNone(out) => Yielded(out) = OkValues(src))

C4_Witness ==
  /\ kind = "filter_ok"
  /\ SawNone(out)
  /\ Fails(src) # {}
  /\ \E i \in 1..Len(src) : i > FirstFail(src) /\ IsOk(src[i])
  /\ Len(Yielded(out)) >= 2

\* C5: try_map keeps length and positions: Ok(v) becomes Ok(f(v)), Err(e)
\* stays Err(e); f is called once per success pulled, in order, never for a
\* failure.
C5_TryMapPositions ==
  kind = "try_map" =>
    /\ \A i \in 1..Len(out) :
         IF i <= Len(src)
         THEN out[i] = Some(IF IsOk(src[i]) THEN Ok(f[src[i][2]]) ELSE src[i])
         ELSE IsNone(out[i])
    /\ calls = OkValues(Pulled)
    /\ pos = IF Len(out) <= Len(src) THEN Len(out) ELSE Len(src)

C5_Witness ==
  /\ kind = "try_map"
  /\ Len(out) > Len(src)
  /\ Fails(src) # {}
  /\ \E i \in 1..Len(src) : i > FirstFail(src) /\ IsOk(src[i]) /\ f[src[i][2]] # src[i][2]
  /\ Len(calls) >= 2

\* C6: try_filter yields the sequence with exactly the successes failing the
\* predicate removed; failures pass through unchanged, the predicate is
\* applied to successes only, and pulling continues after a failure.
C6_TryFilterKeeps ==
  kind = "try_filter" =>
    LET keep(x) == IsErr(x) \/ predicate[x[2]]
        kept == SelectSeq(src, keep)
    IN /\ IsPrefix(Yielded(out), kept)
       /\ (SawNone(out) => Yielded(out) = kept)
       /\ calls = OkValues(Pulled)

C6_Witness ==
  /\ kind = "try_filter"
  /\ SawNone(out)
  /\ Fails(src) # {}
  /\ \E i \in 1..Len(src) : i > FirstFail(src) /\ IsOk(src[i]) /\ predicate[src[i][2]]
  /\ \E i \in 1..Len(src) : IsOk(src[i]) /\ ~predicate[src[i][2]]

\* C7 as stated: each pull of map_and_then yields None for None,
\* Err(convert(e)) for Err(e) without calling f, and for Ok(v) calls f(v) once
\* and yields Ok(v2) for Ok(v2) or Err(convert(e2)) for Err(e2).
C7_MapAndThenConvertsBoth ==
  kind = "map_and_then" =>
    /\ \A i \in 1..Len(out) :
         IF i > Len(src) THEN IsNone(out[i])
         ELSE IF IsErr(src[i]) THEN out[i] = Some(Err(From(src[i][2])))
         ELSE LET r == f[src[i][2]] IN
              out[i] = Some(IF IsOk(r) THEN r ELSE Err(From(r[2])))
    /\ calls = OkValues(Pulled)

\* C7 amended: as above, but an Err(e2) returned by f is yielded unchanged;
\* only failures of the wrapped sequence are converted.
C7_MapAndThenConvertsWrapped ==
  kind = "map_and_then" =>
    /\ \A i \in 1..Len(out) :
         IF i > Len(src) THEN IsNone(out[i])
         ELSE IF IsErr(src[i]) THEN out[i] = Some(Err(From(src[i][2])))
         ELSE out[i] = Some(f[src[i][2]])
    /\ calls = OkValues(Pulled)
    /\ pulls = Len(out)

C7_Witness ==
  /\ kind = "map_and_then"
  /\ Len(out) > Len(src)
  /\ \E i \in 1..Len(src) : IsErr(src[i])
  /\ \E i \in 1..Len(src) : IsOk(src[i]) /\ IsErr(f[src[i][2]])
  /\ \E i \in 1..Len(src) : IsOk(src[i]) /\ IsOk(f[src[i][2]])

\* C8: without a failure, try_buffer succeeds and collecting the returned
\* sequence gives what try_collect gives on the same sequence; with a failure,
\* try_buffer returns the failure try_collect returns, and no buffer.
C8_BufferRoundTrip ==
  kind = "try_buffer" =>
    LET direct == TryCollectLoop(src, 0, 0, <<>>).res IN
    /\ (Fails(src) = {} =>
          /\ IsOk(res)
          /\ (collected # <<>> /\ bufOut = <<>> => Ok(collected[1]) = direct))
    /\ (Fails(src) # {} =>
          /\ IsErr(res)
          /\ res = direct
          /\ buf = <<>>
          /\ ~ENABLED IterBuffer_next)

C8_Witness ==
  /\ kind = "try_buffer"
  /\ Fails(src) = {}
  /\ Len(src) >= 2
  /\ src[1] # src[2]
  /\ collected # <<>>
  /\ bufOut = <<>>

\* C9: on the sequence try_buffer returns over v_0..v_(n-1), under any
\* interleaving of next and next_back: next has yielded v_0, v_1, ..,
\* next_back has yielded v_(n-1), v_(n-2), .., no element was yielded twice,
\* len() is n minus the number yielded, and after a None every pull is None.
C9_IterBufferEnds ==
  (kind = "try_buffer" /\ Len(res) = 2 /\ IsOk(res) /\ collected = <<>>) =>
    LET v == Values(src)
        n == Len(v)
        isFwd(e) == e[1] = "next" /\ IsSome(e[2])
        isBwd(e) == e[1] = "next_back" /\ IsSome(e[2])
        fwd == SelectSeq(bufOut, isFwd)
        bwd == SelectSeq(bufOut, isBwd)
    IN /\ \A i \in 1..Len(fwd) : i <= n /\ fwd[i][2] = Some(v[i])
       /\ \A i \in 1..Len(bwd) : i <= n /\ bwd[i][2] = Some(v[n + 1 - i])
       /\ Len(fwd) + Len(bwd) <= n
       /\ IterBufferLen(front, back) = n - (Len(fwd) + Len(bwd))
       /\ IterBufferSizeHint(front, back) = <<n - (Len(fwd) + Len(bwd)), Some(n - (Len(fwd) + Len(bwd)))>>
       /\ \A i, j \in 1..Len(bufOut) : i < j /\ IsNone(bufOut[i][2]) => IsNone(bufOut[j][2])
       /\ \A i \in 1..Len(bufOut) : IsNone(bufOut[i][2]) => Len(SubSeq(bufOut, 1, i - 1)) >= n

C9_Witness ==
  /\ kind = "try_buffer"
  /\ Len(buf) = MaxLen
  /\ \E i, j, k \in 1..Len(bufOut) :
       /\ i < j /\ j < k
       /\ bufOut[i][1] = "next_back" /\ IsSome(bufOut[i][2])
       /\ bufOut[j][1] = "next" /\ IsSome(bufOut[j][2])
       /\ bufOut[k][1] = "next_back" /\ IsSome(bufOut[k][2])
  /\ \E i, j \in 1..Len(bufOut) :
       /\ i < j
       /\ bufOut[i][1] = "next" /\ IsNone(bufOut[i][2])
       /\ bufOut[j][1] = "next_back" /\ IsNone(bufOut[j][2])

\* C10: constructing an adapter pulls nothing and calls no closure; a pull of
\* try_map or map_and_then pulls the wrapped sequence exactly once, a pull of
\* take_ok at most once, a pull of try_filter or filter_ok up to the first
\* element it forwards or the end; try_collect and try_buffer drain the
\* sequence up to its end or its first failure.
Adapters == {"try_map", "map_and_then", "try_filter", "take_ok", "filter_ok"}

Scan(forwards(_)) ==
  LET hits == {j \in (pos + 1)..Len(src) : forwards(src[j])} IN
  IF hits = {} THEN Len(src) - pos + 1
  ELSE (CHOOSE j \in hits : \A k \in hits : j <= k) - pos

C10_LazyStep ==
  /\ (kind = "none" /\ kind' \in Adapters =>
        pulls' = pulls /\ pos' = pos /\ calls' = calls /\ out' = out)
  /\ (kind \in {"try_map", "map_and_then"} /\ out' # out => pulls' = pulls + 1)
  /\ (kind = "take_ok" /\ out' # out => pulls' \in {pulls, pulls + 1})
  /\ (kind = "filter_ok" /\ out' # out => pulls' = pulls + Scan(IsOk))
  /\ (kind = "try_filter" /\ out' # out =>
        LET keep(x) == IsErr(x) \/ predicate[x[2]] IN pulls' = pulls + Scan(keep))
  /\ (kind = "none" /\ kind' \in {"try_collect", "try_buffer"} =>
        pulls' = IF Fails(src) = {} THEN Len(src) + 1 ELSE FirstFail(src))

C10_Lazy == [][C10_LazyStep]_vars

C10_Witness ==
  /\ kind = "try_filter"
  /\ Len(out) >= 2
  /\ lastPulls >= 2
  /\ IsSome(out[Len(out)])
====
